---- MODULE Spec2Model ----
(***************************************************************************)
(* Model of the CPU Gather kernel                                          *)
(* (onnxruntime/core/providers/cpu/tensor/gather.cc):                      *)
(*   GatherBase::PrepareForCompute, GatherCopyData and Gather::Compute.    *)
(*                                                                         *)
(* Two specifications share the GatherCopyData actions:                    *)
(*   Spec      Gather::Compute on small tensors (shape planning, dispatch, *)
(*             validation, parallel copy);                                 *)
(*   SpecCopy  GatherCopyData called with a batch count M whose product    *)
(*             M*N does not fit the `int` loop counter of the chunk loop.  *)
(*                                                                         *)
(* 64-bit quantities that can exceed 2^31-1 (M, M*N, the chunk bounds,     *)
(* the buffer extents) are kept as pairs [hi, lo] = hi * 2^16 + lo.        *)
(***************************************************************************)
EXTENDS Integers, Sequences, FiniteSets, TLC

\* ------------------------------------------------------------------ bounds
MaxRank == 2
MaxDim == 2
MaxN == 2
MaxElems == 4
MaxChunks == 3
CutSpan == 3
Window == 8

\* ------------------------------------------------- 64-bit values, int casts
Limb == 2 ^ 16
HalfLimb == 2 ^ 15

\* a ptrdiff_t / int64_t value hi * 2^16 + lo
Wide(h, l) == [hi |-> h, lo |-> l]

\* std::ptrdiff_t holding the non-negative value n
PtrDiff(n) == Wide(n \div Limb, n % Limb)

WLess(a, b) == a.hi < b.hi \/ (a.hi = b.hi /\ a.lo < b.lo)

WLeq(a, b) == a = b \/ WLess(a, b)

\* a * n in int64_t, for a small multiplier n >= 0
WMul(a, n) == Wide(a.hi * n + (a.lo * n) \div Limb, (a.lo * n) % Limb)

\* a + n in int64_t, for a small n >= 0
WAdd(a, n) == Wide(a.hi + (a.lo + n) \div Limb, (a.lo + n) % Limb)

\* static_cast<int>(v) of a ptrdiff_t: the low 32 bits, read as two's complement
StaticCastInt(v) ==
  LET h == v.hi % Limb
  IN  IF h >= HalfLimb THEN (h - Limb) * Limb + v.lo ELSE h * Limb + v.lo

\* C++ integer division and remainder (truncation toward zero)
CDiv(a, b) == IF a >= 0 THEN a \div b ELSE -((-a) \div b)

CMod(a, b) == a - b * CDiv(a, b)

Min(a, b) == IF a < b THEN a ELSE b

\* ------------------------------------------------------------ tensor shapes
RECURSIVE Prod(_, _, _)
\* product of dims[lo+1 .. hi] (0-based half-open range [lo, hi))
Prod(dims, lo, hi) == IF lo >= hi THEN 1 ELSE dims[lo + 1] * Prod(dims, lo + 1, hi)

\* TensorShape::Size
Size(shape) == Prod(shape, 0, Len(shape))

\* TensorShape::SizeFromDimension
SizeFromDimension(shape, k) == Prod(shape, k, Len(shape))

\* TensorShape::SizeToDimension
SizeToDimension(shape, k) == Prod(shape, 0, k)

\* element types of the data tensor
DTypes == {"int16", "string"}

\* Tensor::IsDataTypeString
IsDataTypeString(dtype) == dtype = "string"

\* DataType()->Size(): sizeof of one element
ElementSize(dtype) == CASE dtype = "int16" -> 2 [] dtype = "string" -> 32

\* element types of the indices tensor that reach Compute
IndexTypes == {"int32", "int64", "float"}

\* A buffer is an array of cells: a byte of a fixed-width tensor, one
\* std::string object of a string tensor.
CellBytes(is_string_type, element_bytes) == IF is_string_type THEN element_bytes ELSE 1

\* Content of the input buffer: every cell holds a distinct non-zero value.
SrcCell(c) == c + 1

\* Content of an output cell nothing was written to.
Unwritten == 0

\* What a wild write leaves behind.
Garbage == 0 - 1

\* ------------------------------------------------------------------- state
VARIABLES
  context,   \* OpKernelContext: the data tensor (shape, element type) and the indices tensor
  axis_,     \* GatherBase::axis_, the axis attribute
  pc,        \* position in Gather::Compute / GatherCopyData
  p,         \* GatherBase::Prepare
  args,      \* arguments and locals of the running GatherCopyData call
  i,         \* loop counter of the validation loop
  tasks,     \* the chunks handed out by TryParallelFor, each with its loop counters
  dst,       \* cells of the output buffer (the first Window cells of a larger one)
  status     \* the Status returned

vars == <<context, axis_, pc, p, args, i, tasks, dst, status>>

\* ------------------------------------------------------------------ inputs
NoContext == [input_shape |-> <<>>, dtype |-> "int16", indices_shape |-> <<>>]

NoPrepare == [axis |-> 0, output_shape |-> <<>>, has_output |-> FALSE]

NoArgs == [called |-> FALSE]

\* a Status: its code and, for the out-of-bounds message, the values it embeds
MakeStatus(c, m, x, l, h) == [code |-> c, msg |-> m, idx |-> x, lo |-> l, hi |-> h]

NoStatus == MakeStatus("none", "", 0, 0, 0)

StatusOK == MakeStatus("OK", "", 0, 0, 0)

\* an output buffer of n cells nothing was written to
FreshBuffer(n) == [c \in 0..(n - 1) |-> Unwritten]

\* ------------------------------------------------ GatherBase::PrepareForCompute
\* HandleNegativeAxis (core/providers/common.h): the axis must lie in [-rank, rank)
AxisInRange(axis, tensor_rank) == axis >= 0 - tensor_rank /\ axis <= tensor_rank - 1

HandleNegativeAxis(axis, tensor_rank) == IF axis < 0 THEN axis + tensor_rank ELSE axis

\* data tensors: rank 1..MaxRank, dimensions 0..MaxDim, at most MaxElems elements
InputShapes == {s \in UNION {[1..r -> 0..MaxDim] : r \in 1..MaxRank} : Size(s) <= MaxElems}

\* indices tensors: rank 0..MaxRank, at most MaxN elements
IndexShapes == {s \in UNION {[1..r -> 0..MaxN] : r \in 0..MaxRank} : Size(s) <= MaxN}

\* axis attributes: every valid one of every rank and the nearest invalid ones
AxisAttrs == (0 - (MaxRank + 1))..MaxRank

\* index values for an axis of extent dim: the ends of the valid range [-dim, dim),
\* the values around zero, and the nearest invalid value on each side
IndexValues(dim) == {0 - (dim + 1), 0 - dim, 0 - 1, 0, dim - 1, dim}

\* the gather has at most MaxElems gather units and output elements
Bounded(shape, ishape, axis) ==
  AxisInRange(axis, Len(shape)) =>
    LET a == HandleNegativeAxis(axis, Len(shape))
    IN  /\ SizeToDimension(shape, a) * Size(ishape) <= MaxElems
        /\ SizeToDimension(shape, a) * Size(ishape) * SizeFromDimension(shape, a + 1) <= MaxElems

\* mutant of PreparedAxis: a negative axis attribute is clamped to 0
PreparedAxis_Clamped(axis_attr, input_rank) == IF axis_attr < 0 THEN 0 ELSE axis_attr

\* p.axis = HandleNegativeAxis(axis_, input_rank)
PreparedAxis(axis_attr, input_rank) == HandleNegativeAxis(axis_attr, input_rank)

RECURSIVE PushBackRange(_, _, _, _)
\* for (k = from; k < to; ++k) shape.push_back(dims[k]);
PushBackRange(shape, dims, from, to) ==
  IF from < to THEN PushBackRange(Append(shape, dims[from + 1]), dims, from + 1, to) ELSE shape

\* mutant of OutputShape: the third loop starts at axis, keeping the gathered dimension
OutputShape_KeepAxis(input_data_shape, indices_shape, axis) ==
  LET input_rank == Len(input_data_shape)
      s1 == PushBackRange(<<>>, input_data_shape, 0, axis)
      s2 == PushBackRange(s1, indices_shape, 0, Len(indices_shape))
  IN  PushBackRange(s2, input_data_shape, axis, input_rank)

\* the shape PrepareForCompute requests for output 0
OutputShape(input_data_shape, indices_shape, axis) ==
  LET input_rank == Len(input_data_shape)
      s1 == PushBackRange(<<>>, input_data_shape, 0, axis)
      s2 == PushBackRange(s1, indices_shape, 0, Len(indices_shape))
  IN  PushBackRange(s2, input_data_shape, axis + 1, input_rank)

\* number of cells of a tensor of the given shape and element type
TensorCells(shape, dtype) ==
  (Size(shape) * ElementSize(dtype)) \div CellBytes(IsDataTypeString(dtype), ElementSize(dtype))

\* context->Input<Tensor>(0) and (1): the tensors the kernel is run on
Inputs ==
  {[input_shape |-> shape, dtype |-> dtype, indices_shape |-> ishape] :
     shape \in InputShapes, dtype \in DTypes, ishape \in IndexShapes}

PrepareForCompute ==
  /\ pc = "Compute"
  /\ \E ctx \in Inputs :
       /\ Bounded(ctx.input_shape, ctx.indices_shape, axis_)
       /\ context' = ctx
       /\ LET input_rank == Len(ctx.input_shape)
          IN  IF AxisInRange(axis_, input_rank)
              THEN LET axis == PreparedAxis(axis_, input_rank)
                       shape == OutputShape(ctx.input_shape, ctx.indices_shape, axis)
                       n == Min(TensorCells(shape, ctx.dtype), Window)
                   IN  /\ p' = [axis |-> axis, output_shape |-> shape, has_output |-> TRUE]
                       /\ dst' = FreshBuffer(n)
                       /\ pc' = "Dispatch"
                       /\ UNCHANGED status
              ELSE /\ status' = MakeStatus("INVALID_ARGUMENT", "axis is not in valid range", axis_,
                                           0 - input_rank, input_rank - 1)
                   /\ pc' = "done"
                   /\ UNCHANGED <<p, dst>>
  /\ UNCHANGED <<axis_, args, i, tasks>>

\* ------------------------------------------------------------ Gather::Compute
\* the arguments Gather::Compute passes to GatherCopyData
ComputeArgs(ctx, prep) ==
  LET axis == prep.axis
      input_data_shape == ctx.input_shape
      is_string_type == IsDataTypeString(ctx.dtype)
      element_bytes == ElementSize(ctx.dtype)
      block == SizeFromDimension(input_data_shape, axis + 1)
      block_size == block * element_bytes
      M == SizeToDimension(input_data_shape, axis)
      N == Size(ctx.indices_shape)
      data_batch_bytes == SizeFromDimension(input_data_shape, axis) * element_bytes
      gathered_batch_bytes == N * block * element_bytes
  IN  [called |-> TRUE,
       get_index |-> <<>>,
       is_string_type |-> is_string_type,
       element_bytes |-> element_bytes,
       block_size |-> block_size,
       M |-> PtrDiff(M),
       N |-> N,
       data_batch_bytes |-> data_batch_bytes,
       gathered_batch_bytes |-> gathered_batch_bytes,
       axis_dim_limit |-> input_data_shape[axis + 1],
       src_cells |-> PtrDiff(TensorCells(input_data_shape, ctx.dtype)),
       dst_cells |-> PtrDiff(TensorCells(prep.output_shape, ctx.dtype))]

ComputeDispatch ==
  /\ pc = "Dispatch"
  /\ \E Tind \in IndexTypes :
       IF Tind \in {"int32", "int64"}
       THEN /\ args' = ComputeArgs(context, p)
            /\ i' = 0
            /\ pc' = "Validate"
            /\ UNCHANGED status
       ELSE /\ status' = MakeStatus("NOT_IMPLEMENTED", "Type for Tind not supported yet in Gather.",
                                    0, 0, 0)
            /\ pc' = "done"
            /\ UNCHANGED <<args, i>>
  /\ UNCHANGED <<context, axis_, p, tasks, dst>>

\* ------------------------------------------------------------ GatherCopyData
\* mutant of OutOfBounds: the upper test is off by one (idx > axis_dim_limit)
OutOfBounds_OffByOne(idx, axis_dim_limit) == idx < 0 - axis_dim_limit \/ idx > axis_dim_limit

\* the bounds test of the validation loop: idx < -axis_dim_limit || idx >= axis_dim_limit
OutOfBounds(idx, axis_dim_limit) == idx < 0 - axis_dim_limit \/ idx >= axis_dim_limit

\* mutant of OutOfBoundsStatus: the message gives the exclusive upper bound
OutOfBoundsStatus_Exclusive(idx, axis_dim_limit) ==
  MakeStatus("INVALID_ARGUMENT", "indices element out of data bounds", idx,
             0 - axis_dim_limit, axis_dim_limit)

\* the Status the validation loop returns for an offending idx
OutOfBoundsStatus(idx, axis_dim_limit) ==
  MakeStatus("INVALID_ARGUMENT", "indices element out of data bounds", idx,
             0 - axis_dim_limit, axis_dim_limit - 1)

\* The indices tensor is read through the get_index callback. args.get_index holds
\* the elements read so far; an element read for the first time is any of
\* IndexValues, and a later read of the same position returns the same value.
get_index(a, k) == a.get_index[k + 1]

\* one iteration of the validation loop whose index is in bounds
ValidateNext ==
  /\ pc = "Validate"
  /\ i < args.N
  /\ \E idx \in IndexValues(args.axis_dim_limit) :
       /\ ~OutOfBounds(idx, args.axis_dim_limit)
       /\ args' = [args EXCEPT !.get_index = Append(@, idx)]
  /\ i' = i + 1
  /\ UNCHANGED <<context, axis_, pc, p, tasks, dst, status>>

\* one iteration of the validation loop whose index is out of bounds: return the error
ValidateFail ==
  /\ pc = "Validate"
  /\ i < args.N
  /\ \E idx \in IndexValues(args.axis_dim_limit) :
       /\ OutOfBounds(idx, args.axis_dim_limit)
       /\ args' = [args EXCEPT !.get_index = Append(@, idx)]
       /\ status' = OutOfBoundsStatus(idx, args.axis_dim_limit)
  /\ pc' = "done"
  /\ UNCHANGED <<context, axis_, p, i, tasks, dst>>

\* mutant of ResolveIndex: a negative index is resolved one row too low
ResolveIndex_OffByOne(idx, axis_dim_limit) == IF idx < 0 THEN idx + axis_dim_limit - 1 ELSE idx

\* idx = idx < 0 ? idx + axis_dim_limit : idx
ResolveIndex(idx, axis_dim_limit) == IF idx < 0 THEN idx + axis_dim_limit ELSE idx

\* src_offset of gather unit index
SrcOffset(a, index) ==
  LET batch == CDiv(index, a.N)
      k == CMod(index, a.N)
  IN  batch * a.data_batch_bytes + ResolveIndex(get_index(a, k), a.axis_dim_limit) * a.block_size

\* dst_offset of gather unit index
DstOffset(a, index) ==
  LET batch == CDiv(index, a.N)
      k == CMod(index, a.N)
  IN  batch * a.gathered_batch_bytes + k * a.block_size

\* x cells starting at cell c lie inside a buffer of n cells
InBuffer(c, x, n) == c >= 0 /\ WLeq(PtrDiff(c + x), n)

\* The cells the lambda writes for gather unit index, as a function from output cell
\* to the input cell copied there: one std::string assignment, or a memcpy of
\* block_size bytes.
LambdaWrites(a, index) ==
  IF a.is_string_type
  THEN LET d == DstOffset(a, index) \div a.element_bytes
       IN  [c \in {d} |-> SrcOffset(a, index) \div a.element_bytes]
  ELSE LET d == DstOffset(a, index)
       IN  [c \in d..(d + a.block_size - 1) |-> SrcOffset(a, index) + (c - d)]

\* buf after the cells of w were copied into it from the input buffer
CopyCells(buf, w) == [c \in DOMAIN buf |-> IF c \in DOMAIN w THEN SrcCell(w[c]) ELSE buf[c]]

\* The lambda's accesses for gather unit index are undefined: a negative unit reads
\* get_index or the buffers before their start; otherwise the cells read and written
\* must lie inside the input and the output buffer.
LambdaUndefined(a, index) ==
  \/ index < 0
  \/ /\ index >= 0
     /\ a.is_string_type
     /\ \/ ~InBuffer(SrcOffset(a, index) \div a.element_bytes, 1, a.src_cells)
        \/ ~InBuffer(DstOffset(a, index) \div a.element_bytes, 1, a.dst_cells)
        \/ SrcOffset(a, index) < 0
  \/ /\ index >= 0
     /\ ~a.is_string_type
     /\ a.block_size > 0
     /\ \/ ~InBuffer(SrcOffset(a, index), a.block_size, a.src_cells)
        \/ ~InBuffer(DstOffset(a, index), a.block_size, a.dst_cells)

\* the chunk lambda's loop header:
\* for (int index = static_cast<int>(first), end = static_cast<int>(last); index < end; ++index)
ChunkTask(first, last) ==
  [first |-> first, last |-> last, index |-> StaticCastInt(first), end |-> StaticCastInt(last)]

\* the chunk's loop has run to its end
ChunkFinished(t) == ~(t.index < t.end)

\* the cut points the scheduler may place inside [0, total)
CutCandidates(total) ==
  LET small == IF total.hi = 0 THEN Min(total.lo - 1, CutSpan) ELSE CutSpan
  IN  {c \in {PtrDiff(n) : n \in 1..small} \cup {Wide(HalfLimb, 0)}
             \cup {Wide(Limb, n) : n \in 0..CutSpan} : WLess(c, total)}

RECURSIVE SortCuts(_)
SortCuts(S) ==
  IF S = {} THEN <<>>
  ELSE LET m == CHOOSE x \in S : \A y \in S : WLeq(x, y)
       IN  <<m>> \o SortCuts(S \ {m})

\* the contiguous chunks [0, c1), [c1, c2), ..., [ck, total) of a set of cut points
Chunks(cuts, total) ==
  LET cs == SortCuts(cuts)
  IN  [k \in 1..(Len(cs) + 1) |->
         ChunkTask(IF k = 1 THEN PtrDiff(0) ELSE cs[k - 1],
                   IF k = Len(cs) + 1 THEN total ELSE cs[k])]

\* ThreadPool::TryParallelFor(tp, M * N, cost, fn): the validation loop is over, the
\* M * N units are split into contiguous chunks and fn is started on each
TryParallelFor ==
  /\ pc = "Validate"
  /\ i >= args.N
  /\ LET total == WMul(args.M, args.N)
     IN  \E cuts \in SUBSET CutCandidates(total) :
           /\ Cardinality(cuts) <= MaxChunks - 1
           /\ tasks' = Chunks(cuts, total)
  /\ pc' = "Copy"
  /\ UNCHANGED <<context, axis_, p, args, i, dst, status>>

\* one iteration of a chunk's loop: lambda(index); ++index
ChunkStep(t) ==
  /\ pc = "Copy"
  /\ ~ChunkFinished(tasks[t])
  /\ ~LambdaUndefined(args, tasks[t].index)
  /\ dst' = CopyCells(dst, LambdaWrites(args, tasks[t].index))
  /\ tasks' = [tasks EXCEPT ![t].index = @ + 1]
  /\ UNCHANGED <<context, axis_, pc, p, args, i, status>>

\* one iteration of a chunk's loop whose accesses are undefined: the process is
\* killed, or it goes on past a wild write
ChunkUndefined(t) ==
  /\ pc = "Copy"
  /\ ~ChunkFinished(tasks[t])
  /\ LambdaUndefined(args, tasks[t].index)
  /\ \/ dst' = dst
     \/ \E c \in DOMAIN dst : dst' = [dst EXCEPT ![c] = Garbage]
  /\ status' = MakeStatus("UNDEFINED", "", tasks[t].index, 0, 0)
  /\ pc' = "done"
  /\ UNCHANGED <<context, axis_, p, args, i, tasks>>

\* every chunk has finished: TryParallelFor returns, GatherCopyData returns Status::OK()
ReturnOK ==
  /\ pc = "Copy"
  /\ \A t \in DOMAIN tasks : ChunkFinished(tasks[t])
  /\ status' = StatusOK
  /\ pc' = "done"
  /\ UNCHANGED <<context, axis_, p, args, i, tasks, dst>>

GatherCopyData ==
  \/ ValidateNext
  \/ ValidateFail
  \/ TryParallelFor
  \/ \E t \in DOMAIN tasks : ChunkStep(t)
  \/ \E t \in DOMAIN tasks : ChunkUndefined(t)
  \/ ReturnOK

\* ---------------------------------------------------------- specifications
\* a Gather kernel constructed with its axis attribute; Compute is then run on it
Init ==
  /\ context = NoContext
  /\ axis_ \in AxisAttrs
  /\ pc = "Compute"
  /\ p = NoPrepare
  /\ args = NoArgs
  /\ i = 0
  /\ tasks = <<>>
  /\ dst = FreshBuffer(0)
  /\ status = NoStatus

Next == PrepareForCompute \/ ComputeDispatch \/ GatherCopyData

Spec == Init /\ [][Next]_vars

\* batch counts M for which M * N exceeds the range of int: 2^31 + 1, 2^32 + 1, 2^32 + 2
HugeM == {Wide(HalfLimb, 1), Wide(Limb, 1), Wide(Limb, 2)}

\* the arguments of a GatherCopyData call on an int16 tensor of shape [M, dim], axis 1,
\* with N indices
CopyArgs(M, N, dim) ==
  LET element_bytes == ElementSize("int16")
      block_size == 1 * element_bytes
  IN  [called |-> TRUE,
       get_index |-> <<>>,
       is_string_type |-> FALSE,
       element_bytes |-> element_bytes,
       block_size |-> block_size,
       M |-> M,
       N |-> N,
       data_batch_bytes |-> dim * element_bytes,
       gathered_batch_bytes |-> N * 1 * element_bytes,
       axis_dim_limit |-> dim,
       src_cells |-> WMul(M, dim * element_bytes),
       dst_cells |-> WMul(M, N * block_size)]

\* GatherCopyData entered with a huge batch count; dst is the start of the output buffer
InitCopy ==
  /\ context = NoContext
  /\ axis_ = 1
  /\ pc = "Validate"
  /\ p = NoPrepare
  /\ \E M \in HugeM, N \in 1..MaxN, dim \in 1..MaxDim : args = CopyArgs(M, N, dim)
  /\ i = 0
  /\ tasks = <<>>
  /\ dst = FreshBuffer(Window)
  /\ status = NoStatus

SpecCopy == InitCopy /\ [][GatherCopyData]_vars

\* ------------------------------------------------------------------ claims
\* the index values read so far, in flattened position order
Read == args.get_index

\* the output buffer is as it was allocated
Untouched == \A c \in DOMAIN dst : dst[c] = Unwritten

\* value v lies in the valid index range [-dim, dim)
InRange(v, dim) == 0 - dim <= v /\ v < dim

\* the validation loop returned its error
ValidationFailed == pc = "done" /\ status.msg = "indices element out of data bounds"

\* Compute / GatherCopyData returned Status::OK()
ReturnedOK == pc = "done" /\ status = StatusOK

\* the row of the gathered axis that index value v selects
Row(v, dim) == IF v >= 0 THEN v ELSE v + dim

\* C1: in GatherCopyData no cell of the destination is written before all N index
\* positions were checked against [-dim, dim); if an index read at any position is
\* out of range the call returns InvalidArgument and the destination is as it was
\* before the call, whatever the scheduling of the copy tasks.
C1_ValidationBeforeCopy ==
  args.called =>
    LET dim == context.input_shape[p.axis + 1]
        offender == \E k \in 1..Len(Read) : ~InRange(Read[k], dim)
    IN  /\ pc = "Validate" => Untouched
        /\ ~Untouched => Len(Read) = args.N /\ ~offender
        /\ offender => Untouched /\ pc = "done" /\ status.code = "INVALID_ARGUMENT"

\* C1 witness: the second of two indices is out of range, the call has returned
\* the error and the allocated output is untouched
C1_Witness ==
  /\ ValidationFailed
  /\ Len(Read) = 2
  /\ DOMAIN dst # {}
  /\ Untouched

\* C2: for a fixed-width element type, after an OK return every byte b of the block
\* of every (batch, i) in [0, M) x [0, N) satisfies
\* dst[batch * gathered_batch_bytes + i * block_size + b] =
\* src[batch * data_batch_bytes + r * block_size + b], r the row index i selects.
C2_OutputIsReferenceGather ==
  (ReturnedOK /\ args.called /\ ~args.is_string_type) =>
    \A batch \in 0..Window, k \in 0..(args.N - 1), b \in 0..(args.block_size - 1) :
      LET c == batch * args.gathered_batch_bytes + k * args.block_size + b
          r == Row(Read[k + 1], args.axis_dim_limit)
      IN  (WLess(PtrDiff(batch), args.M) /\ c \in DOMAIN dst) =>
            dst[c] = SrcCell(batch * args.data_batch_bytes + r * args.block_size + b)

\* C3: the output shape PrepareForCompute requests is
\* input.shape[0:axis] ++ indices.shape ++ input.shape[axis+1:], of rank
\* input.rank - 1 + indices.rank.
C3_ShapeLaw ==
  p.has_output =>
    LET in == context.input_shape
        rank == Len(in)
        axis == IF axis_ < 0 THEN axis_ + rank ELSE axis_
    IN  /\ p.output_shape = SubSeq(in, 1, axis) \o context.indices_shape \o SubSeq(in, axis + 2, rank)
        /\ Len(p.output_shape) = rank - 1 + Len(context.indices_shape)

\* C3 witness: data of shape [2,2] gathered on axis 0 with indices of shape [1,2]
C3_Witness ==
  /\ p.has_output
  /\ context.input_shape = <<2, 2>>
  /\ context.indices_shape = <<1, 2>>
  /\ p.axis = 0
  /\ p.output_shape = <<1, 2, 2>>

\* C4: for a string tensor, after an OK return every element slot e of every
\* gathered block holds the string of slot e of the selected input block.
C4_StringBlocksCopied ==
  (ReturnedOK /\ args.called /\ args.is_string_type) =>
    LET block == args.block_size \div args.element_bytes
        dim == args.axis_dim_limit
    IN  \A batch \in 0..Window, k \in 0..(args.N - 1), e \in 0..(block - 1) :
          LET c == (batch * args.N + k) * block + e
              r == Row(Read[k + 1], dim)
          IN  (WLess(PtrDiff(batch), args.M) /\ c \in DOMAIN dst) =>
                dst[c] = SrcCell((batch * dim + r) * block + e)

\* the gather units chunk task t has passed to the lambda
Calls(t) ==
  LET lo == StaticCastInt(tasks[t].first)
  IN  IF lo < tasks[t].index THEN lo..(tasks[t].index - 1) ELSE {}

\* the chunk tasks that wrote output cell c
Writers(c) == {t \in DOMAIN tasks : \E u \in Calls(t) : c \in DOMAIN LambdaWrites(args, u)}

\* the destination byte range of gather unit (batch, k)
DstRange(batch, k) ==
  LET d == batch * args.gathered_batch_bytes + k * args.block_size
  IN  d..(d + args.block_size - 1)

\* C5: the destination ranges of two distinct gather units are disjoint, and no
\* output cell is written by two chunk tasks.
C5_DisjointWrites ==
  (pc \in {"Copy", "done"} /\ args.called /\ tasks # <<>>) =>
    /\ \A b1, b2 \in 0..Window, k1, k2 \in 0..(args.N - 1) :
         <<b1, k1>> # <<b2, k2>> => DstRange(b1, k1) \cap DstRange(b2, k2) = {}
    /\ \A c \in DOMAIN dst : Cardinality(Writers(c)) <= 1

RECURSIVE RunChunk(_, _, _)
\* the buffer after the chunk loop of task t ran alone on buffer buf
RunChunk(a, buf, t) ==
  IF t.index < t.end
  THEN RunChunk(a, CopyCells(buf, LambdaWrites(a, t.index)), [t EXCEPT !.index = @ + 1])
  ELSE buf

\* C6: the output of any partition of [0, M*N) into chunks, run in any order, is
\* the output of the one sequential chunk [0, M*N).
C6_SameAsSequential ==
  (ReturnedOK /\ args.called) =>
    dst = RunChunk(args, FreshBuffer(Cardinality(DOMAIN dst)),
                   ChunkTask(PtrDiff(0), WMul(args.M, args.N)))

\* C7: an index -k (1 <= k <= dim) is accepted by validation exactly when dim - k
\* is, and after an OK return the output block of a position holding -k equals the
\* output block of a position holding dim - k, in every batch.
C7_NegativeIndexEquivalence ==
  args.called =>
    LET dim == context.input_shape[p.axis + 1]
        accepted(j) == ~(ValidationFailed /\ j = Len(Read))
    IN  \A x, y \in 1..Len(Read), k \in 1..dim :
          (Read[x] = 0 - k /\ Read[y] = dim - k) =>
            /\ accepted(x) /\ accepted(y)
            /\ ReturnedOK =>
                 \A batch \in 0..Window, b \in 0..(args.block_size - 1) :
                   LET cx == batch * args.gathered_batch_bytes + (x - 1) * args.block_size + b
                       cy == batch * args.gathered_batch_bytes + (y - 1) * args.block_size + b
                       sx == cx \div CellBytes(args.is_string_type, args.element_bytes)
                       sy == cy \div CellBytes(args.is_string_type, args.element_bytes)
                   IN  (WLess(PtrDiff(batch), args.M) /\ sx \in DOMAIN dst /\ sy \in DOMAIN dst) =>
                         dst[sx] = dst[sy]

\* C7 witness: dim = 2, indices [-1, 1], the call returned OK and both blocks were written
C7_Witness ==
  /\ ReturnedOK
  /\ args.called
  /\ args.axis_dim_limit = 2
  /\ Read = <<0 - 1, 1>>
  /\ \A c \in DOMAIN dst : dst[c] # Unwritten
  /\ DOMAIN dst # {}

\* C8: when validation fails the status carries the value read at the lowest
\* out-of-range position and the inclusive range [-dim, dim - 1].
C8_ErrorNamesOffender ==
  ValidationFailed =>
    LET dim == context.input_shape[p.axis + 1]
        k == Len(Read)
    IN  /\ status.code = "INVALID_ARGUMENT"
        /\ k >= 1
        /\ status.idx = Read[k]
        /\ ~InRange(Read[k], dim)
        /\ \A j \in 1..(k - 1) : InRange(Read[j], dim)
        /\ status.lo = 0 - dim
        /\ status.hi = dim - 1

\* C8 witness: dim = 2, the second index is 2: idx = 2, range [-2, 1]
C8_Witness ==
  /\ ValidationFailed
  /\ Len(Read) = 2
  /\ status.idx = 2
  /\ status.lo = 0 - 2
  /\ status.hi = 1

C10_ChunkCopiesItsUnits ==
  (pc \in {"Copy", "done"} /\ args.called /\ status.code # "UNDEFINED") =>
    \A t \in DOMAIN tasks :
      ChunkFinished(tasks[t]) =>
        LET lo == StaticCastInt(tasks[t].first)
            n == Cardinality(Calls(t))
        IN  /\ \A u \in Calls(t) : u >= 0 /\ PtrDiff(u) = WAdd(tasks[t].first, u - lo)
            /\ WAdd(tasks[t].first, n) = tasks[t].last

====
